---- MODULE Spec2Model ----
(***************************************************************************)
(* The alarm clock of the kernel's timer (devices/timer.c as described in  *)
(* ALARM_CLOCK_REFACTOR.md): timer_sleep() parks the calling thread in     *)
(* sleeping_list with interrupts masked, timer_interrupt() advances ticks  *)
(* and, when ticks has reached next_wakeup_tick, check_sleeping_threads()  *)
(* unblocks the threads that are due.  One CPU: one thread runs at a time, *)
(* the timer interrupt is delivered only while interrupts are on, and its  *)
(* thread_tick() takes the CPU from a thread that has had its time slice.  *)
(***************************************************************************)
EXTENDS Integers, Sequences, FiniteSets, TLC

\* ------------------------------------------------------------------ bounds
\* The last tick the model's clock reaches.
MaxTick == 5
\* The longest sleep a thread asks for: longer than a time slice, so that a
\* running thread's slice can end while a unit sleeps and on the tick a unit
\* comes due.
MaxDur == 5
\* How many times one thread calls timer_sleep().
MaxCalls == 2

\* The threads that use the timer, and the idle thread's stand-in.
Threads == {1, 2, 3}
Idle == 0
Durations == {-1, 0, 1, MaxDur}

\* The "no thread is sleeping" value of next_wakeup_tick.  The model's integers
\* are 32 bits wide, so the largest of them stands for the largest int64_t; the
\* clock and every wakeup_tick stay far below it.
INT64_MAX == 2147483647

VARIABLES
  ticks,             \* timer.c: static int64_t ticks (the Global Clock)
  next_wakeup_tick,  \* timer.c: static int64_t next_wakeup_tick
  sleeping_list,     \* timer.c: sleeping_list, front first
  ready_list,        \* thread.c: ready_list, front first
  status,            \* struct thread: status
  wakeup_tick,       \* struct thread: wakeup_tick
  running,           \* the thread that owns the CPU, or Idle
  thread_ticks,      \* thread.c: timer ticks since the CPU last changed hands
  intr_level,        \* the CPU's interrupt flag
  old_level,         \* timer_sleep's local old_level
  pc,                \* where each thread stands
  arg,               \* the ticks argument of a thread's latest timer_sleep()
  calls,             \* how many times a thread has called timer_sleep()
  start,             \* history: the clock at a thread's latest timer_sleep()
  wakes,             \* history: thread_unblock()s since a thread's latest sleep request
  comparisons,       \* history: registry entries the latest timer_interrupt() compared
  scans,             \* history: scans run at the current clock since the last insertion
  fp                 \* fixed_point.h: the latest call, its arguments and its result

vars == <<ticks, next_wakeup_tick, sleeping_list, ready_list, status, wakeup_tick,
          running, thread_ticks, intr_level, old_level, pc, arg, calls, start, wakes, comparisons,
          scans, fp>>

\* ----------------------------------------------------------------- helpers
InList(list, t) == \E i \in 1 .. Len(list) : list[i] = t

Occurrences(list, t) == Cardinality({i \in 1 .. Len(list) : list[i] = t})

\* The least wakeup_tick over a list of threads, INT64_MAX for the empty list.
MinWake(list, wt) ==
  IF list = <<>> THEN INT64_MAX
  ELSE CHOOSE m \in {wt[list[i]] : i \in 1 .. Len(list)} :
         \A i \in 1 .. Len(list) : m <= wt[list[i]]

Sorted(list, wt) ==
  \A i, j \in 1 .. Len(list) : i < j => wt[list[i]] <= wt[list[j]]

\* ------------------------------------------------------- interrupt level
\* Variant: timer_sleep() that goes on without masking interrupts.
intr_disable_forgotten(level) == level

\* intr_disable(): interrupts are off afterwards (the old level is returned).
intr_disable(level) == "INTR_OFF"

\* intr_set_level(old_level): the level becomes the saved one.
intr_set_level(level) == level

\* ------------------------------------------------------------ timer_sleep
\* Variant: only a negative duration returns at once.
no_sleep_only_negative(n) == n < 0

\* timer_sleep() returns at once for a duration that is zero or negative.
no_sleep(n) == n <= 0

\* The absolute tick at which the sleeper is due.
wake_time(now, n) == now + n

\* Variant: a comparison that also puts a sleeper before an equal wakeup_tick.
wakeup_time_not_after(a, b, wt) == wt[a] <= wt[b]

\* The ordering of sleeping_list: strictly earlier wakeup_tick first.
wakeup_time_less(a, b, wt) == wt[a] < wt[b]

\* The first position whose entry is strictly later than t, Len + 1 if none.
RECURSIVE InsertPos(_, _, _, _)
InsertPos(list, t, wt, i) ==
  IF i > Len(list) THEN i
  ELSE IF wakeup_time_less(t, list[i], wt) THEN i
  ELSE InsertPos(list, t, wt, i + 1)

\* Variant: the sleeper is appended, whatever its wakeup_tick.
list_push_back(list, t, wt) == Append(list, t)

\* list_insert_ordered (&sleeping_list, &current->elem, wakeup_time_less, NULL)
list_insert_ordered(list, t, wt) ==
  LET p == InsertPos(list, t, wt, 1)
  IN  SubSeq(list, 1, p - 1) \o <<t>> \o SubSeq(list, p, Len(list))

\* Variant: timer_sleep() that leaves next_wakeup_tick alone.
cache_not_lowered(wt, cache) == cache

\* if (wakeup_tick < next_wakeup_tick) next_wakeup_tick = wakeup_tick;
cache_after_insert(wt, cache) == IF wt < cache THEN wt ELSE cache

\* --------------------------------------------------------- timer_interrupt
\* Variant: a tick that advances the clock by two.
tick_counted_twice(now) == now + 2

\* ticks++;
next_tick(now) == now + 1

\* Variant: the handler scans on every tick.
scan_always(now, cache) == TRUE

\* if (ticks >= next_wakeup_tick) check_sleeping_threads ();
scan_needed(now, cache) == now >= cache

\* ------------------------------------------------- check_sleeping_threads
\* Variant: an entry counts as due one tick before its wakeup_tick.
due_one_tick_early(wt, now) == wt <= now + 1

\* The test of one registry entry against the clock.
due(wt, now) == wt <= now

\* How many entries, from the front, are due: the walk stops at the first
\* entry that is not.
RECURSIVE DueCount(_, _, _)
DueCount(list, wt, now) ==
  IF list = <<>> THEN 0
  ELSE IF due(wt[Head(list)], now) THEN 1 + DueCount(Tail(list), wt, now)
  ELSE 0

\* Variant: the scan always resets next_wakeup_tick to INT64_MAX.
cache_cleared(list, wt) == INT64_MAX

\* if (list_empty (&sleeping_list)) next_wakeup_tick = INT64_MAX;
\* else next_wakeup_tick = list_entry (list_front (&sleeping_list), ...)->wakeup_tick;
cache_after_scan(list, wt) ==
  IF list = <<>> THEN INT64_MAX ELSE wt[Head(list)]

\* The entries the walk unblocks: the first k of the registry.
woken_threads(list, k) == SubSeq(list, 1, k)

\* Variant: the scan unblocks without removing from sleeping_list.
remove_forgotten(list, k) == list

\* Each of them is removed from sleeping_list as it is unblocked.
remove_woken(list, k) == SubSeq(list, k + 1, Len(list))

\* Entries compared with the clock: the due ones and the one that stops the walk.
Compared(list, k) == k + (IF k < Len(list) THEN 1 ELSE 0)

\* --------------------------------------------------------------- thread.c
\* thread_unblock (t): "Moves to ready_list, sets status to READY".
unblocked_status(st, woken) ==
  [t \in Threads |-> IF InList(woken, t) THEN "THREAD_READY" ELSE st[t]]

\* ... and each one is pushed to the back of ready_list, in scan order.
unblocked_ready(rl, woken) == rl \o woken

\* # of timer ticks to give each thread (thread.c).
TIME_SLICE == 4

\* thread_tick(): one more tick for the thread that is running.
thread_tick(n) == n + 1

\* thread_tick(): "Enforce preemption": intr_yield_on_return () once the running
\* thread has had TIME_SLICE ticks.
yield_on_return(n) == n >= TIME_SLICE

\* thread_yield(): the running thread, unless it is the idle thread, is pushed
\* to the back of ready_list.
yielded_ready(rl, cur) == IF cur = Idle THEN rl ELSE Append(rl, cur)

\* schedule(): the thread at the front of ready_list runs next; the idle thread
\* runs (and turns interrupts on to wait) when ready_list is empty.
next_thread_to_run(rl) == IF rl = <<>> THEN Idle ELSE Head(rl)

\* ---------------------------------------------------------- fixed_point.h
\* #define FP_F (1 << 14)
FP_F == 16384

\* The range of int: 32 bits, two's complement.
INT_MAX == (FP_F * FP_F * 4 - 1) * 2 + 1
INT_MIN == (-INT_MAX) - 1

\* The arguments the fixed-point functions are called with: zero, the units,
\* the halves and their neighbours, 1.0, 1.5 and 2.5, values whose products
\* and quotients need more than 32 bits, and the ends of the range of int.
Int32Samples ==
  {0, 1, -1, 3, -3, FP_F \div 2 - 1, -(FP_F \div 2 - 1), FP_F \div 2, -(FP_F \div 2),
   FP_F \div 2 + 1, -(FP_F \div 2 + 1), FP_F, -FP_F, FP_F + FP_F \div 2,
   -(FP_F + FP_F \div 2), 2 * FP_F + FP_F \div 2, -(2 * FP_F + FP_F \div 2),
   4 * FP_F, -(4 * FP_F), 8 * FP_F - 1, -(8 * FP_F), 8 * FP_F,
   FP_F * FP_F, INT_MAX - FP_F \div 2, INT_MAX, INT_MIN + 1, INT_MIN}

\* No fixed-point function has been called yet.
no_call == [op |-> "none", x |-> 0, y |-> 0, res |-> 0]

\* C's integer division by a positive divisor: the quotient is truncated toward
\* zero (the model's \div rounds down).
trunc_div(a, b) ==
  IF a >= 0 \/ a % b = 0 THEN a \div b ELSE (a \div b) + 1

\* n * FP_F is in the range of int.
scaled_fits(n) == n >= trunc_div(INT_MIN, FP_F) /\ n <= trunc_div(INT_MAX, FP_F)

\* x + FP_F / 2, or x - FP_F / 2 for a negative x, is in the range of int.
offset_fits(x) == x <= INT_MAX - FP_F \div 2 /\ x >= INT_MIN + FP_F \div 2

\* Variant: a conversion that scales by half of FP_F.
fp_int_to_fp_half_scale(n) == n * (FP_F \div 2)

\* return n * FP_F;
fp_int_to_fp(n) == n * FP_F

\* return x / FP_F;
fp_to_int_zero(x) == trunc_div(x, FP_F)

\* The int a compiled n * FP_F leaves when the product is outside the range of
\* int: its low 32 bits, two's complement.
wrapped_scale(n) ==
  LET m == n % (16 * FP_F)
  IN  IF m < 8 * FP_F THEN m * FP_F ELSE (m - 16 * FP_F) * FP_F

\* The int a compiled x + FP_F / 2 (x >= 0) or x - FP_F / 2 (x < 0) leaves when
\* the sum is outside the range of int: the sum less, or plus, 2^32.
wrapped_offset(x) ==
  IF x >= 0 THEN ((x - INT_MAX) + (FP_F \div 2 - 1)) + INT_MIN
  ELSE ((x - INT_MIN) - (FP_F \div 2 - 1)) + INT_MAX

\* What fp_int_to_fp (n) returns when n * FP_F overflows: the behaviour is
\* undefined; every build leaves the wrapped product.
int_to_fp_overflowed(n) == {wrapped_scale(n)}

\* What fp_to_int_zero (fp_int_to_fp (n)) gives when n * FP_F overflows: the
\* wrapped product divided by FP_F, or, where the compiler has cancelled the
\* division against the multiplication, n itself.
round_trip_overflowed(n) == {fp_to_int_zero(wrapped_scale(n)), n}

\* What fp_to_int_nearest (x) returns when the offset sum overflows: the wrapped
\* sum divided by FP_F, truncated toward zero or, where the compiler has taken
\* the sum of the x >= 0 branch for non-negative and shifted it, rounded down.
to_int_nearest_overflowed(x) ==
  {trunc_div(wrapped_offset(x), FP_F), wrapped_offset(x) \div FP_F}

\* Variant: the offset is added whatever the sign of x.
fp_to_int_nearest_offset_added(x) == trunc_div(x + FP_F \div 2, FP_F)

\* if (x >= 0) return (x + FP_F / 2) / FP_F; else return (x - FP_F / 2) / FP_F;
fp_to_int_nearest(x) ==
  IF x >= 0 THEN trunc_div(x + FP_F \div 2, FP_F)
  ELSE trunc_div(x - FP_F \div 2, FP_F)

\* int64_t arithmetic.  The model's integers are 32 bits wide, so a 64-bit
\* magnitude is a sequence of digits in base FP_F, lowest first, every digit but
\* the highest below FP_F; the sign is kept beside it.

\* Carries taken from the lowest digit up; the highest digit keeps what is left.
RECURSIVE Carry(_, _)
Carry(digits, c) ==
  IF Len(digits) = 1 THEN <<digits[1] + c>>
  ELSE <<(digits[1] + c) % FP_F>> \o Carry(Tail(digits), (digits[1] + c) \div FP_F)

\* (int64_t) x: the three digits of |x|.  For a negative x they are those of
\* -(x + 1) plus one, so that INT_MIN needs no special case.
Mag(x) ==
  IF x >= 0
  THEN <<x % FP_F, (x \div FP_F) % FP_F, x \div (FP_F * FP_F)>>
  ELSE LET m == -(x + 1)
       IN  Carry(<<(m % FP_F) + 1, (m \div FP_F) % FP_F, m \div (FP_F * FP_F)>>, 0)

\* The 64-bit product of two magnitudes, five digits.
MagMul(a, b) ==
  Carry(<<a[1] * b[1],
          a[1] * b[2] + a[2] * b[1],
          a[1] * b[3] + a[2] * b[2] + a[3] * b[1],
          a[2] * b[3] + a[3] * b[2],
          a[3] * b[3]>>, 0)

\* (int) of the 64-bit value with sign `neg` and magnitude `digits`: the low 32
\* bits, read as two's complement.
to_int(neg, digits) ==
  LET h   == digits[3] % 16
      low == digits[2] * FP_F + digits[1]
      s   == IF h >= 8 THEN (h - 16) * FP_F * FP_F + low ELSE h * FP_F * FP_F + low
  IN  IF ~neg THEN s
      ELSE IF s = INT_MIN THEN INT_MIN ELSE -s

\* Variant: the product is taken in int, without the cast to int64_t, and wraps
\* at 32 bits before the division.
fp_mul_in_int(x, y) ==
  trunc_div(to_int((x < 0) # (y < 0), MagMul(Mag(x), Mag(y))), FP_F)

\* return (int) (((int64_t) x) * y / FP_F);
fp_mul(x, y) ==
  to_int((x < 0) # (y < 0), Tail(MagMul(Mag(x), Mag(y))))

\* One step of the long division by a divisor held as the negative number nd:
\* the remainder rem, in nd + 1 .. 0 and negative too, takes in bit b of the
\* dividend.  The result is <<quotient bit, new remainder>>.
DivBit(rem, b, nd) ==
  IF rem - b <= nd - rem
  THEN <<1, (rem - b) - (nd - rem)>>
  ELSE <<0, rem + (rem - b)>>

\* Two to the power i.
RECURSIVE Pow2(_)
Pow2(i) == IF i = 0 THEN 1 ELSE 2 * Pow2(i - 1)

\* The long division takes in bits i .. 0 of one digit of the dividend; q is the
\* quotient digit so far.  The result is <<quotient digit, remainder>>.
RECURSIVE DivDigit(_, _, _, _, _)
DivDigit(rem, digit, nd, i, q) ==
  IF i < 0 THEN <<q, rem>>
  ELSE LET st == DivBit(rem, (digit \div Pow2(i)) % 2, nd)
       IN  IF st[1] = 1 THEN DivDigit(st[2], digit, nd, i - 1, 2 * q + 1)
           ELSE DivDigit(st[2], digit, nd, i - 1, 2 * q)

\* The 64-bit quotient of the magnitude a * FP_F by |y|, four digits.
MagDivScaled(a, y) ==
  LET nd == IF y > 0 THEN -y ELSE y
      q3 == DivDigit(0, a[3], nd, 13, 0)
      q2 == DivDigit(q3[2], a[2], nd, 13, 0)
      q1 == DivDigit(q2[2], a[1], nd, 13, 0)
      q0 == DivDigit(q1[2], 0, nd, 13, 0)
  IN  <<q0[1], q1[1], q2[1], q3[1]>>

\* return (int) (((int64_t) x) * FP_F / y);  y is not 0.
fp_div(x, y) ==
  to_int((x < 0) # (y < 0), MagDivScaled(Mag(x), y))

\* ------------------------------------------------------------------ state
TypeOK ==
  /\ ticks \in 0 .. MaxTick
  /\ next_wakeup_tick \in (0 .. (MaxTick + MaxDur)) \cup {INT64_MAX}
  /\ \A t \in Threads :
       /\ status[t] \in {"THREAD_RUNNING", "THREAD_READY", "THREAD_BLOCKED"}
       /\ pc[t] \in {"new", "run", "disabled", "computed", "inserted", "cached",
                     "blocked", "preempted"}
       /\ arg[t] \in Durations
       /\ calls[t] \in 0 .. MaxCalls
  /\ running \in Threads \cup {Idle}
  /\ intr_level \in {"INTR_ON", "INTR_OFF"}

Init ==
  /\ ticks = 0
  /\ next_wakeup_tick = INT64_MAX
  /\ sleeping_list = <<>>
  /\ ready_list = <<1, 2, 3>>
  /\ status = [t \in Threads |-> "THREAD_READY"]
  /\ wakeup_tick = [t \in Threads |-> 0]
  /\ running = Idle
  /\ thread_ticks = 0
  /\ intr_level = "INTR_ON"
  /\ old_level = [t \in Threads |-> "INTR_ON"]
  /\ pc = [t \in Threads |-> "new"]
  /\ arg = [t \in Threads |-> 0]
  /\ calls = [t \in Threads |-> 0]
  /\ start = [t \in Threads |-> 0]
  /\ wakes = [t \in Threads |-> 0]
  /\ comparisons = 0
  /\ scans = 0
  /\ fp = no_call

\* ---------------------------------------------------------------- actions
\* timer_sleep (n), up to intr_disable(): a zero or negative n returns at once;
\* otherwise interrupts are masked before anything else is touched.
timer_sleep_enter(t, n) ==
  /\ running = t /\ pc[t] = "run" /\ intr_level = "INTR_ON"
  /\ calls[t] < MaxCalls
  /\ calls' = [calls EXCEPT ![t] = @ + 1]
  /\ arg' = [arg EXCEPT ![t] = n]
  /\ start' = [start EXCEPT ![t] = ticks]
  /\ IF no_sleep(n)
     THEN UNCHANGED <<old_level, intr_level, pc, wakes>>
     ELSE /\ old_level' = [old_level EXCEPT ![t] = intr_level]
          /\ intr_level' = intr_disable(intr_level)
          /\ pc' = [pc EXCEPT ![t] = "disabled"]
          /\ wakes' = [wakes EXCEPT ![t] = 0]
  /\ UNCHANGED <<ticks, next_wakeup_tick, sleeping_list, ready_list, status,
                 wakeup_tick, running, comparisons, scans,
                 fp, thread_ticks>>

\* wake_tick = current clock + ticks to wait.
timer_sleep_compute(t) ==
  /\ running = t /\ pc[t] = "disabled"
  /\ wakeup_tick' = [wakeup_tick EXCEPT ![t] = wake_time(ticks, arg[t])]
  /\ pc' = [pc EXCEPT ![t] = "computed"]
  /\ UNCHANGED <<ticks, next_wakeup_tick, sleeping_list, ready_list, status, running,
                 intr_level, old_level, arg, calls, start, wakes, comparisons, scans,
                 fp, thread_ticks>>

\* The thread is added to sleeping_list at its sorted position.
timer_sleep_insert(t) ==
  /\ running = t /\ pc[t] = "computed"
  /\ sleeping_list' = list_insert_ordered(sleeping_list, t, wakeup_tick)
  /\ pc' = [pc EXCEPT ![t] = "inserted"]
  /\ scans' = 0
  /\ UNCHANGED <<ticks, next_wakeup_tick, ready_list, status, wakeup_tick, running,
                 intr_level, old_level, arg, calls, start, wakes, comparisons,
                 fp, thread_ticks>>

\* The global optimization variable is lowered to the new wakeup_tick.
timer_sleep_cache(t) ==
  /\ running = t /\ pc[t] = "inserted"
  /\ next_wakeup_tick' = cache_after_insert(wakeup_tick[t], next_wakeup_tick)
  /\ pc' = [pc EXCEPT ![t] = "cached"]
  /\ UNCHANGED <<ticks, sleeping_list, ready_list, status, wakeup_tick, running,
                 intr_level, old_level, arg, calls, start, wakes, comparisons, scans,
                 fp, thread_ticks>>

\* thread_block(): "Sets status to BLOCKED and calls schedule()".
thread_block(t) ==
  /\ running = t /\ pc[t] = "cached"
  /\ running' = next_thread_to_run(ready_list)
  /\ IF ready_list = <<>>
     THEN /\ status' = [status EXCEPT ![t] = "THREAD_BLOCKED"]
          /\ ready_list' = ready_list
          /\ intr_level' = "INTR_ON"
     ELSE /\ status' = [status EXCEPT ![t] = "THREAD_BLOCKED",
                                      ![Head(ready_list)] = "THREAD_RUNNING"]
          /\ ready_list' = Tail(ready_list)
          /\ intr_level' = intr_level
  /\ pc' = [pc EXCEPT ![t] = "blocked"]
  /\ thread_ticks' = 0
  /\ UNCHANGED <<ticks, next_wakeup_tick, sleeping_list, wakeup_tick, old_level, arg,
                 calls, start, wakes, comparisons, scans,
                 fp>>

\* A thread that has just been given the CPU goes on where it left off: after
\* thread_block() in timer_sleep() that is intr_set_level (old_level); a thread
\* that runs for the first time, or returns from the interrupt that preempted
\* it, has interrupts on.  The history of a sleep that has ended is forgotten.
thread_resume(t) ==
  /\ running = t /\ pc[t] \in {"new", "blocked", "preempted"}
  /\ intr_level' = IF pc[t] = "blocked" THEN intr_set_level(old_level[t]) ELSE "INTR_ON"
  /\ pc' = [pc EXCEPT ![t] = "run"]
  /\ start' = IF pc[t] = "preempted" THEN start ELSE [start EXCEPT ![t] = 0]
  /\ wakes' = IF pc[t] = "preempted" THEN wakes ELSE [wakes EXCEPT ![t] = 0]
  /\ UNCHANGED <<ticks, next_wakeup_tick, sleeping_list, ready_list, status,
                 wakeup_tick, running, old_level, arg, calls, comparisons, scans,
                 fp, thread_ticks>>

\* The idle thread gives the CPU to the front of ready_list.
idle_schedule ==
  /\ running = Idle /\ ready_list # <<>>
  /\ running' = Head(ready_list)
  /\ ready_list' = Tail(ready_list)
  /\ status' = [status EXCEPT ![Head(ready_list)] = "THREAD_RUNNING"]
  /\ intr_level' = "INTR_OFF"
  /\ thread_ticks' = 0
  /\ UNCHANGED <<ticks, next_wakeup_tick, sleeping_list, wakeup_tick, old_level, pc,
                 arg, calls, start, wakes, comparisons, scans,
                 fp>>

\* check_sleeping_threads(), run inside the interrupt handler at clock `now`:
\* the lists, the statuses and next_wakeup_tick as it leaves them.
check_sleeping_threads(now) ==
  LET k     == DueCount(sleeping_list, wakeup_tick, now)
      woken == woken_threads(sleeping_list, k)
      left  == remove_woken(sleeping_list, k)
  IN  [sleeping_list    |-> left,
       ready_list       |-> unblocked_ready(ready_list, woken),
       status           |-> unblocked_status(status, woken),
       next_wakeup_tick |-> cache_after_scan(left, wakeup_tick),
       wakes            |-> [t \in Threads |-> wakes[t] + Occurrences(woken, t)],
       comparisons      |-> Compared(sleeping_list, k)]

\* The handler's short cut: nothing is scanned and nothing changes.
scan_skipped ==
  [sleeping_list    |-> sleeping_list,
   ready_list       |-> ready_list,
   status           |-> status,
   next_wakeup_tick |-> next_wakeup_tick,
   wakes            |-> wakes,
   comparisons      |-> 0]

\* timer_interrupt(): ticks++, thread_tick(), then the scan if the clock has
\* reached next_wakeup_tick.  Delivered only while interrupts are on.  When
\* thread_tick() has asked for it the interrupted thread yields on return: it
\* goes to the back of ready_list, behind the threads the scan has woken, and
\* the front of ready_list runs.
timer_interrupt ==
  /\ intr_level = "INTR_ON"
  /\ ticks < MaxTick
  /\ ticks' = next_tick(ticks)
  /\ LET now == next_tick(ticks)
         sc  == IF scan_needed(now, next_wakeup_tick)
                THEN check_sleeping_threads(now) ELSE scan_skipped
         rl  == yielded_ready(sc.ready_list, running)
         nxt == next_thread_to_run(rl)
     IN  /\ sleeping_list' = sc.sleeping_list
         /\ next_wakeup_tick' = sc.next_wakeup_tick
         /\ wakes' = sc.wakes
         /\ comparisons' = sc.comparisons
         /\ scans' = IF scan_needed(now, next_wakeup_tick) THEN 1 ELSE 0
         /\ IF yield_on_return(thread_tick(thread_ticks))
            THEN /\ thread_ticks' = 0
                 /\ running' = nxt
                 /\ ready_list' = IF rl = <<>> THEN rl ELSE Tail(rl)
                 /\ status' = [t \in Threads |->
                                 IF t = nxt THEN "THREAD_RUNNING"
                                 ELSE IF t = running THEN "THREAD_READY"
                                 ELSE sc.status[t]]
                 /\ pc' = IF nxt = running \/ running = Idle THEN pc
                          ELSE [pc EXCEPT ![running] = "preempted"]
                 /\ intr_level' = IF nxt = running THEN intr_level ELSE "INTR_OFF"
            ELSE /\ thread_ticks' = thread_tick(thread_ticks)
                 /\ ready_list' = sc.ready_list
                 /\ status' = sc.status
                 /\ UNCHANGED <<running, pc, intr_level>>
  /\ UNCHANGED <<wakeup_tick, old_level, arg, calls, start, fp>>

\* check_sleeping_threads() invoked once more at the clock value at which it has
\* just run, before any further insertion.
rescan ==
  /\ intr_level = "INTR_ON"
  /\ scans = 1
  /\ LET sc == check_sleeping_threads(ticks)
     IN  /\ sleeping_list' = sc.sleeping_list
         /\ ready_list' = sc.ready_list
         /\ status' = sc.status
         /\ next_wakeup_tick' = sc.next_wakeup_tick
         /\ wakes' = sc.wakes
         /\ comparisons' = sc.comparisons
  /\ scans' = 2
  /\ UNCHANGED <<ticks, wakeup_tick, running, intr_level, old_level, pc, arg, calls,
                 start, fp, thread_ticks>>

\* A thread keeps the CPU until it blocks in timer_sleep() or the timer interrupt
\* takes the CPU from it at the end of its time slice.
ThreadStep(t) ==
  \/ \E n \in Durations : timer_sleep_enter(t, n)
  \/ timer_sleep_compute(t)
  \/ timer_sleep_insert(t)
  \/ timer_sleep_cache(t)
  \/ thread_block(t)
  \/ thread_resume(t)

Next ==
  \/ \E t \in Threads : ThreadStep(t)
  \/ idle_schedule
  \/ timer_interrupt

Spec == Init /\ [][Next]_vars

\* The program with the repeated scan added.
NextWithRescan ==
  \/ Next
  \/ rescan

ScanSpec == Init /\ [][NextWithRescan]_vars

\* The scenario of three units that sleep 5, 1 and 5 ticks at clock 0: unit t
\* asks for ScenarioSleeps[t].
ScenarioSleeps == <<5, 1, 5>>

\* The three threads start in any order on ready_list.
ScenarioInit ==
  /\ ticks = 0
  /\ next_wakeup_tick = INT64_MAX
  /\ sleeping_list = <<>>
  /\ ready_list \in {<<a, b, c>> : a, b, c \in Threads}
  /\ \A t \in Threads : InList(ready_list, t)
  /\ status = [t \in Threads |-> "THREAD_READY"]
  /\ wakeup_tick = [t \in Threads |-> 0]
  /\ running = Idle
  /\ thread_ticks = 0
  /\ intr_level = "INTR_ON"
  /\ old_level = [t \in Threads |-> "INTR_ON"]
  /\ pc = [t \in Threads |-> "new"]
  /\ arg = [t \in Threads |-> 0]
  /\ calls = [t \in Threads |-> 0]
  /\ start = [t \in Threads |-> 0]
  /\ wakes = [t \in Threads |-> 0]
  /\ comparisons = 0
  /\ scans = 0
  /\ fp = no_call

\* Each unit makes its one request, at clock 0.
scenario_sleep(t) ==
  /\ calls[t] = 0
  /\ ticks = 0
  /\ timer_sleep_enter(t, ScenarioSleeps[t])

\* The clock is advanced once all three requests are in and the units sleep.
scenario_tick ==
  /\ \A t \in Threads : calls[t] = 1
  /\ \A t \in Threads : pc[t] \in {"blocked", "run", "preempted"}
  /\ timer_interrupt

ScenarioNext ==
  \/ \E t \in Threads : scenario_sleep(t)
  \/ \E t \in Threads : timer_sleep_compute(t)
  \/ \E t \in Threads : timer_sleep_insert(t)
  \/ \E t \in Threads : timer_sleep_cache(t)
  \/ \E t \in Threads : thread_block(t)
  \/ \E t \in Threads : thread_resume(t)
  \/ idle_schedule
  \/ scenario_tick

ScenarioSpec == ScenarioInit /\ [][ScenarioNext]_vars

\* ------------------------------------------------ calls of fixed_point.h
\* The variables of the alarm clock, which the fixed-point functions do not
\* touch.
timer_vars == <<ticks, next_wakeup_tick, sleeping_list, ready_list, status,
                wakeup_tick, running, thread_ticks, intr_level, old_level, pc, arg, calls, start,
                wakes, comparisons, scans>>

\* The alarm clock as constructed, and a pair of arguments.
FpInit ==
  /\ ticks = 0
  /\ next_wakeup_tick = INT64_MAX
  /\ sleeping_list = <<>>
  /\ ready_list = <<1, 2, 3>>
  /\ status = [t \in Threads |-> "THREAD_READY"]
  /\ wakeup_tick = [t \in Threads |-> 0]
  /\ running = Idle
  /\ thread_ticks = 0
  /\ intr_level = "INTR_ON"
  /\ old_level = [t \in Threads |-> "INTR_ON"]
  /\ pc = [t \in Threads |-> "new"]
  /\ arg = [t \in Threads |-> 0]
  /\ calls = [t \in Threads |-> 0]
  /\ start = [t \in Threads |-> 0]
  /\ wakes = [t \in Threads |-> 0]
  /\ comparisons = 0
  /\ scans = 0
  /\ \E x, y \in Int32Samples : fp = [no_call EXCEPT !.x = x, !.y = y]

\* fp_int_to_fp (x).  When x * FP_F is outside the range of int the signed
\* multiplication overflows and the behaviour is undefined.
call_fp_int_to_fp ==
  /\ fp.op = "none"
  /\ IF scaled_fits(fp.x)
     THEN fp' = [fp EXCEPT !.op = "fp_int_to_fp", !.res = fp_int_to_fp(fp.x)]
     ELSE \E r \in int_to_fp_overflowed(fp.x) :
            fp' = [fp EXCEPT !.op = "fp_int_to_fp", !.res = r]
  /\ UNCHANGED timer_vars

\* fp_to_int_zero, applied to x or, after fp_int_to_fp (x), to its result.  After
\* a multiplication that overflowed the two calls together are undefined.
call_fp_to_int_zero ==
  /\ fp.op \in {"none", "fp_int_to_fp"}
  /\ IF fp.op = "none"
     THEN fp' = [fp EXCEPT !.op = "fp_to_int_zero", !.res = fp_to_int_zero(fp.x)]
     ELSE IF scaled_fits(fp.x)
     THEN fp' = [fp EXCEPT !.op = "round_trip", !.res = fp_to_int_zero(fp.res)]
     ELSE \E r \in round_trip_overflowed(fp.x) :
            fp' = [fp EXCEPT !.op = "round_trip", !.res = r]
  /\ UNCHANGED timer_vars

\* fp_to_int_nearest (x).  When x +- FP_F / 2 is outside the range of int the
\* signed addition overflows and the behaviour is undefined.
call_fp_to_int_nearest ==
  /\ fp.op = "none"
  /\ IF offset_fits(fp.x)
     THEN fp' = [fp EXCEPT !.op = "fp_to_int_nearest", !.res = fp_to_int_nearest(fp.x)]
     ELSE \E r \in to_int_nearest_overflowed(fp.x) :
            fp' = [fp EXCEPT !.op = "fp_to_int_nearest", !.res = r]
  /\ UNCHANGED timer_vars

\* fp_mul (x, y).
call_fp_mul ==
  /\ fp.op = "none"
  /\ fp' = [fp EXCEPT !.op = "fp_mul", !.res = fp_mul(fp.x, fp.y)]
  /\ UNCHANGED timer_vars

\* fp_div (x, y).  The division by a zero y raises the processor's divide
\* error: the call does not return and there is no result.
call_fp_div ==
  /\ fp.op = "none"
  /\ IF fp.y # 0
     THEN fp' = [fp EXCEPT !.op = "fp_div", !.res = fp_div(fp.x, fp.y)]
     ELSE fp' = [fp EXCEPT !.op = "fp_div_trapped"]
  /\ UNCHANGED timer_vars

FpNext ==
  \/ call_fp_int_to_fp
  \/ call_fp_to_int_zero
  \/ call_fp_to_int_nearest
  \/ call_fp_mul
  \/ call_fp_div

FpSpec == FpInit /\ [][FpNext]_vars

\* ------------------------------------------------------------- properties
\* A thread between intr_disable() and thread_block() in timer_sleep().
InSleepSequence(t) == pc[t] \in {"disabled", "computed", "inserted", "cached"}

\* A thread that has been parked by timer_sleep() and has not yet gone on past
\* thread_block(): blocked, or made ready again and waiting to go on.
Parked(t) == pc[t] = "blocked"

\* C1: no lost wakeup.  Whatever the clock has reached, no unit whose wake_tick is
\* at or below it is left in the Sleep Registry: every parked unit with
\* wake_tick <= clock has been made Ready, and was made Ready exactly once for
\* that sleep request (never twice, and not at all while it is still blocked).
NoLostWakeup ==
  \A t \in Threads :
    /\ InList(sleeping_list, t) => wakeup_tick[t] > ticks
    /\ (Parked(t) /\ wakeup_tick[t] <= ticks) =>
         (status[t] \in {"THREAD_READY", "THREAD_RUNNING"} /\ wakes[t] = 1)
    /\ status[t] = "THREAD_BLOCKED" => wakes[t] = 0
    /\ wakes[t] <= 1

\* A unit on its second sleep request has been made Ready, once, at its wake_tick
\* while another unit is still asleep.
NoLostWakeupWitness ==
  \E t \in Threads :
    /\ Parked(t) /\ calls[t] = 2 /\ wakeup_tick[t] <= ticks
    /\ status[t] = "THREAD_READY" /\ wakes[t] = 1
    /\ sleeping_list # <<>>

\* C2: no premature wakeup.  No step takes a unit out of the Sleep Registry, or
\* from Blocked to Ready, while its wake_tick is above the clock of that step.
NoPrematureWakeup ==
  [][\A t \in Threads :
       ((InList(sleeping_list, t) /\ ~InList(sleeping_list', t))
          \/ (status[t] = "THREAD_BLOCKED" /\ status'[t] # "THREAD_BLOCKED"))
       => wakeup_tick[t] <= ticks']_vars

\* A scan has woken one unit and left a later one, which it compared, asleep.
NoPrematureWakeupWitness ==
  \E t, u \in Threads :
    /\ Parked(t) /\ status[t] = "THREAD_READY" /\ wakes[t] = 1
    /\ status[u] = "THREAD_BLOCKED" /\ wakeup_tick[u] = ticks + 1
    /\ comparisons = 2

\* C3: timer_sleep() is indivisible with respect to the timer interrupt.  From
\* intr_disable() until thread_block() has blocked the unit, interrupts are off
\* and the unit keeps the CPU; no timer tick happens while a unit stands between
\* computing wake_tick, inserting itself, updating the cache and blocking.
SleepIndivisible ==
  /\ [](\A t \in Threads :
          InSleepSequence(t) => (intr_level = "INTR_OFF" /\ running = t
                                 /\ status[t] = "THREAD_RUNNING"))
  /\ [][ticks' # ticks => \A t \in Threads : ~InSleepSequence(t)]_vars
  /\ [][\A t \in Threads :
          (InSleepSequence(t) /\ ~InSleepSequence(t)') =>
            (status'[t] = "THREAD_BLOCKED" /\ running' # t /\ ticks' = ticks)]_vars

\* A unit is in the registry with the cache updated, not yet blocked, while
\* another unit sleeps and the clock has advanced.
SleepIndivisibleWitness ==
  \E t \in Threads :
    /\ pc[t] = "cached" /\ InList(sleeping_list, t)
    /\ Len(sleeping_list) >= 2 /\ ticks >= 1

\* C4: cache correctness.  Whenever no insertion is half done (no unit stands
\* between its insertion and its cache update), next_wakeup_tick is the least
\* wake_tick in the Sleep Registry, or INT64_MAX when the registry is empty.
CacheCorrect ==
  (\A t \in Threads : pc[t] # "inserted") =>
     next_wakeup_tick = MinWake(sleeping_list, wakeup_tick)

\* After a scan that woke a unit and left two asleep, the cache is the wake_tick
\* of the front of the registry and the idle thread has the CPU.
CacheCorrectWitness ==
  /\ Len(sleeping_list) = 2
  /\ comparisons = 2
  /\ \A t \in Threads : status[t] # "THREAD_RUNNING"
  /\ next_wakeup_tick = wakeup_tick[sleeping_list[1]]
  /\ next_wakeup_tick <= wakeup_tick[sleeping_list[2]]

\* C5: sort invariant.  The Sleep Registry is in non-decreasing order of
\* wake_tick in every state.
SortInvariant == Sorted(sleeping_list, wakeup_tick)

\* Three sleepers, the last one to arrive standing at the front.
SortInvariantWitness ==
  /\ Len(sleeping_list) = 3
  /\ pc[sleeping_list[1]] = "inserted"
  /\ wakeup_tick[sleeping_list[1]] < wakeup_tick[sleeping_list[2]]
  /\ wakeup_tick[sleeping_list[2]] <= wakeup_tick[sleeping_list[3]]

\* A unit marked runnable: Ready, or Running.
Runnable(t) == status[t] \in {"THREAD_READY", "THREAD_RUNNING"}

\* C6 as stated: a unit is in at most one collection.  No unit is in
\* sleeping_list and in ready_list at once, and no unit in sleeping_list is
\* marked runnable.
OneCollectionNotRunnable ==
  \A t \in Threads :
    /\ ~(InList(sleeping_list, t) /\ InList(ready_list, t))
    /\ InList(sleeping_list, t) => ~Runnable(t)

\* C6, amended: no unit is in sleeping_list and in ready_list at once, nor in
\* either more than once; ready_list holds exactly the units marked Ready, so no
\* unit in sleeping_list is marked Ready; and the only unit in sleeping_list that
\* is marked runnable is the running caller of timer_sleep() between its own
\* insertion and its thread_block(), with interrupts off.  Whenever interrupts
\* are on no unit in sleeping_list is marked runnable.
OneCollection ==
  /\ \A t \in Threads :
       /\ ~(InList(sleeping_list, t) /\ InList(ready_list, t))
       /\ InList(sleeping_list, t) => status[t] # "THREAD_READY"
       /\ InList(ready_list, t) <=> status[t] = "THREAD_READY"
       /\ Occurrences(sleeping_list, t) + Occurrences(ready_list, t) <= 1
       /\ (InList(sleeping_list, t) /\ Runnable(t)) =>
            /\ running = t /\ InSleepSequence(t)
            /\ pc[t] \in {"inserted", "cached"}
            /\ intr_level = "INTR_OFF"
  /\ intr_level = "INTR_ON" =>
       \A t \in Threads : InList(sleeping_list, t) => ~Runnable(t)
  /\ Cardinality({t \in Threads : InList(sleeping_list, t) /\ Runnable(t)}) <= 1

\* Interrupts are on with one unit asleep, one woken and in ready_list, and one
\* running that has slept and been woken before.
OneCollectionWitness ==
  \E t, u \in Threads :
    /\ intr_level = "INTR_ON"
    /\ InList(sleeping_list, t) /\ status[t] = "THREAD_BLOCKED"
    /\ InList(ready_list, u) /\ Parked(u) /\ wakes[u] = 1
    /\ running \in Threads \ {t, u} /\ calls[running] >= 1

\* C7 as stated: in every state every member of the Sleep Registry is blocked
\* and appears in it once.
RegistryMembersBlocked ==
  \A t \in Threads :
    InList(sleeping_list, t) =>
      (status[t] = "THREAD_BLOCKED" /\ Occurrences(sleeping_list, t) = 1)

\* C7, amended: every member of the Sleep Registry appears in it once, and every
\* member is blocked except the running unit between its own insertion and its
\* thread_block(), which holds the CPU with interrupts off; so whenever interrupts
\* are on, every member is blocked.
RegistryMembersBlockedUnmasked ==
  /\ \A t \in Threads :
       InList(sleeping_list, t) =>
         /\ Occurrences(sleeping_list, t) = 1
         /\ \/ status[t] = "THREAD_BLOCKED"
            \/ /\ status[t] = "THREAD_RUNNING" /\ running = t
               /\ pc[t] \in {"inserted", "cached"}
               /\ intr_level = "INTR_OFF"
  /\ intr_level = "INTR_ON" =>
       \A t \in Threads : InList(sleeping_list, t) => status[t] = "THREAD_BLOCKED"

\* Interrupts are on and three units, all blocked, are in the registry.
RegistryMembersBlockedWitness ==
  /\ intr_level = "INTR_ON"
  /\ Len(sleeping_list) = 3
  /\ \A t \in Threads : InList(sleeping_list, t) /\ status[t] = "THREAD_BLOCKED"

\* C8: a sleep request of zero or negative duration is a no-op.  The call
\* changes neither the registry, the cache, any unit's status, the ready list,
\* the interrupt level nor who runs, and the caller goes on running; a unit whose
\* latest request was zero or negative is not in the registry, not blocked and
\* nowhere inside the sleep sequence.
ZeroDurationNoOp ==
  /\ [](\A t \in Threads :
          arg[t] <= 0 =>
            /\ ~InList(sleeping_list, t)
            /\ status[t] # "THREAD_BLOCKED"
            /\ ~InSleepSequence(t) /\ ~Parked(t))
  /\ [][\A t \in Threads :
          (calls'[t] # calls[t] /\ arg'[t] <= 0) =>
            /\ UNCHANGED <<sleeping_list, next_wakeup_tick, status, ready_list,
                           wakeup_tick, intr_level, running, pc, ticks>>
            /\ status[t] = "THREAD_RUNNING"]_vars

\* A unit has slept and woken, then asked for a zero or negative sleep, and runs
\* on while another unit is in the registry.
ZeroDurationNoOpWitness ==
  \E t \in Threads :
    /\ calls[t] = 2 /\ arg[t] <= 0
    /\ pc[t] = "run" /\ status[t] = "THREAD_RUNNING" /\ running = t
    /\ wakeup_tick[t] > 0
    /\ sleeping_list # <<>>

\* C9: wake timing.  A unit that asked at clock c = start for N = arg > 0 ticks
\* leaves Blocked in a step whose clock is c + N or c + N + 1, and is not still
\* blocked once the clock is past c + N.
WakeTiming ==
  /\ [][\A t \in Threads :
          (status[t] = "THREAD_BLOCKED" /\ status'[t] # "THREAD_BLOCKED") =>
            ticks' \in {start[t] + arg[t], start[t] + arg[t] + 1}]_vars
  /\ [](\A t \in Threads :
          status[t] = "THREAD_BLOCKED" => (arg[t] > 0 /\ ticks <= start[t] + arg[t]))

\* A unit that asked at clock 0 for 5 ticks has been made Ready at clock 5.
WakeTimingWitness ==
  \E t \in Threads :
    /\ Parked(t) /\ status[t] = "THREAD_READY" /\ wakes[t] = 1
    /\ start[t] = 0 /\ arg[t] = 5 /\ ticks = 5

\* The timer interrupt of this step ends the running thread's time slice.
SliceEnds == ticks' = ticks + 1 /\ thread_ticks = TIME_SLICE - 1

\* C10 as stated: scan skip.  A tick that leaves the clock below
\* next_wakeup_tick compares no registry entry and changes neither the registry,
\* the cache, any unit's status or wake_tick, nor the ready list.
ScanSkip ==
  [][(ticks' = ticks + 1 /\ ticks' < next_wakeup_tick) =>
       /\ comparisons' = 0
       /\ UNCHANGED <<sleeping_list, next_wakeup_tick, status, ready_list,
                      wakeup_tick, running, pc>>]_vars

\* C10: scan skip, with the scheduler's tick.  A tick that leaves the clock
\* below next_wakeup_tick compares no registry entry, wakes no unit, and changes
\* neither the registry, the cache nor any wake_tick; a Blocked unit stays
\* Blocked and no unit becomes Blocked.  Statuses, ready_list and the running
\* thread change only when the tick ends the running thread's time slice: then
\* the running thread goes to the back of ready_list and its front runs.
ScanSkipNoWakeup ==
  [][(ticks' = ticks + 1 /\ ticks' < next_wakeup_tick) =>
       /\ comparisons' = 0
       /\ UNCHANGED <<sleeping_list, next_wakeup_tick, wakeup_tick, wakes>>
       /\ \A t \in Threads :
            (status[t] = "THREAD_BLOCKED") <=> (status'[t] = "THREAD_BLOCKED")
       /\ \/ UNCHANGED <<status, ready_list, running, pc>>
          \/ /\ SliceEnds /\ thread_ticks' = 0
             /\ <<running'>> \o ready_list' =
                  ready_list \o (IF running = Idle THEN <<>> ELSE <<running>>)
             /\ \A t \in Threads :
                  status'[t] = IF t = running' THEN "THREAD_RUNNING"
                               ELSE IF t = running THEN "THREAD_READY"
                               ELSE status[t]]_vars

\* The latest tick came after a unit went to sleep, left the clock below that
\* unit's wake_tick, compared nothing, and ended the time slice of a thread
\* that now waits on ready_list while the next one has the CPU.
ScanSkipNoWakeupWitness ==
  \E t, u \in Threads :
    /\ status[t] = "THREAD_BLOCKED" /\ InList(sleeping_list, t)
    /\ start[t] < ticks /\ ticks < next_wakeup_tick
    /\ comparisons = 0
    /\ pc[u] = "preempted" /\ status[u] = "THREAD_READY"
    /\ thread_ticks = 0 /\ running # Idle /\ pc[running] # "run"

\* The registry entries that are not yet due at clock `now`, in registry order.
RECURSIVE LaterThan(_, _, _)
LaterThan(list, wt, now) ==
  IF list = <<>> THEN <<>>
  ELSE IF wt[Head(list)] > now
       THEN <<Head(list)>> \o LaterThan(Tail(list), wt, now)
       ELSE LaterThan(Tail(list), wt, now)

\* C11: the short-circuit never misses a wakeup.  On a tick that skips the scan
\* (the clock after the increment is below next_wakeup_tick) no member of the
\* Sleep Registry has wake_tick <= clock; and next_wakeup_tick is never above
\* the least wake_tick of a registry whose insertions are complete, so a cache
\* that is off can only be too low.
SkipMissesNothing ==
  /\ [][(ticks' # ticks /\ ticks' < next_wakeup_tick) =>
          \A t \in Threads : InList(sleeping_list, t) => wakeup_tick[t] > ticks']_vars
  /\ []((\A t \in Threads : pc[t] # "inserted") =>
          next_wakeup_tick <= MinWake(sleeping_list, wakeup_tick))

\* A tick has been skipped with two units asleep, one of them due at the next
\* tick.
SkipMissesNothingWitness ==
  /\ Len(sleeping_list) = 2
  /\ comparisons = 0 /\ ticks >= 1
  /\ intr_level = "INTR_ON"
  /\ \A t \in Threads : InList(sleeping_list, t) => start[t] < ticks
  /\ next_wakeup_tick = ticks + 1

\* C13: the clock moves only in the timer interrupt, and there by exactly one.
\* Every step leaves ticks alone or adds 1 to it; a step of timer_sleep() (one
\* that counts a call, or moves a thread's pc other than by preempting it) and
\* a step taken while interrupts are off leave it alone; a step of the interrupt
\* handler (one that counts comparisons, shortens the registry, counts a tick
\* for the running thread or preempts it) adds 1.
ClockStepsByOne ==
  /\ [][ticks' = ticks \/ ticks' = ticks + 1]_vars
  /\ [][((calls' # calls)
          \/ (\E t \in Threads : pc'[t] # pc[t] /\ pc'[t] # "preempted")
          \/ (intr_level = "INTR_OFF"))
          => ticks' = ticks]_vars
  /\ [][((comparisons' # comparisons)
          \/ (Len(sleeping_list') < Len(sleeping_list))
          \/ (thread_ticks' > thread_ticks)
          \/ (\E t \in Threads : pc'[t] # pc[t] /\ pc'[t] = "preempted"))
          => ticks' = ticks + 1]_vars

\* The clock has reached its last tick after units slept and were woken.
ClockStepsByOneWitness ==
  /\ ticks = MaxTick
  /\ \E t \in Threads : calls[t] = 2 /\ Parked(t) /\ wakes[t] = 1

\* C17: scan postcondition.  A tick that scans at clock c leaves in the registry
\* exactly the entries with wake_tick > c, in their previous order; every entry
\* with wake_tick <= c is out of the registry and has been made Ready: it is
\* Ready and once in ready_list, or, when the tick also ends the running
\* thread's time slice, it is the thread given the CPU on return.
ScanPostcondition ==
  [][(ticks' # ticks /\ ticks' >= next_wakeup_tick) =>
       /\ sleeping_list' = LaterThan(sleeping_list, wakeup_tick, ticks')
       /\ \A t \in Threads :
            (InList(sleeping_list, t) /\ wakeup_tick[t] <= ticks') =>
              /\ ~InList(sleeping_list', t)
              /\ wakes'[t] = wakes[t] + 1
              /\ \/ status'[t] = "THREAD_READY" /\ Occurrences(ready_list', t) = 1
                 \/ /\ SliceEnds /\ running' = t
                    /\ status'[t] = "THREAD_RUNNING" /\ ~InList(ready_list', t)
       /\ \A t \in Threads :
            (InList(sleeping_list, t) /\ wakeup_tick[t] > ticks') =>
              status'[t] = "THREAD_BLOCKED"]_vars

\* A scan has woken one unit and left another, which it compared, asleep, on
\* the tick that ended the third's time slice: the woken unit has the CPU and
\* the preempted one waits on ready_list.
ScanPostconditionWitness ==
  \E t, u, v \in Threads :
    /\ sleeping_list = <<u>> /\ ready_list = <<v>>
    /\ comparisons = 2 /\ scans = 1
    /\ running = t /\ status[t] = "THREAD_RUNNING" /\ Parked(t)
    /\ wakes[t] = 1 /\ wakeup_tick[t] = ticks
    /\ status[u] = "THREAD_BLOCKED" /\ wakeup_tick[u] > ticks
    /\ pc[v] = "preempted" /\ status[v] = "THREAD_READY"
    /\ thread_ticks = 0

\* C19: a sleeping unit is released by the wakeup scan alone.  While a unit is
\* Blocked no step moves its pc, counts a call of its, or changes its wake_tick
\* or its sleep argument; a step that leaves it Blocked leaves it in the
\* registry; and a step that ends its being Blocked is a tick that scans, at a
\* clock that has reached its wake_tick, and takes it out of the registry.  It
\* has the CPU only after that scan: from a later schedule, or on return from
\* that very interrupt when the tick also ends the running thread's time slice.
ReleasedByScanAlone ==
  [][\A t \in Threads :
       status[t] = "THREAD_BLOCKED" =>
         /\ pc'[t] = pc[t] /\ calls'[t] = calls[t] /\ arg'[t] = arg[t]
         /\ wakeup_tick'[t] = wakeup_tick[t]
         /\ running # t
         /\ InList(sleeping_list, t)
         /\ status'[t] = "THREAD_BLOCKED" =>
              Occurrences(sleeping_list', t) = 1 /\ running' # t
         /\ status'[t] # "THREAD_BLOCKED" =>
              /\ ticks' = ticks + 1 /\ ticks' >= next_wakeup_tick
              /\ wakeup_tick[t] <= ticks'
              /\ wakes'[t] = wakes[t] + 1
              /\ \/ status'[t] = "THREAD_READY" /\ running' # t
                 \/ status'[t] = "THREAD_RUNNING" /\ running' = t /\ SliceEnds
              /\ ~InList(sleeping_list', t)]_vars

\* A unit is still asleep after another unit has gone to sleep beside it and a
\* scan has woken a third unit.
ReleasedByScanAloneWitness ==
  \E t, u, v \in Threads :
    /\ t # u
    /\ status[t] = "THREAD_BLOCKED" /\ status[u] = "THREAD_BLOCKED"
    /\ start[t] < ticks /\ start[u] < ticks
    /\ wakeup_tick[t] > ticks
    /\ Parked(v) /\ status[v] = "THREAD_READY" /\ wakes[v] = 1

\* The position of t in a list that holds it.
Pos(list, t) == CHOOSE i \in 1 .. Len(list) : list[i] = t

\* The list without t, order kept.
Without(list, t) == SelectSeq(list, LAMBDA x : x # t)

\* C18: wake order.  An insertion puts the new sleeper after every entry whose
\* wake_tick is less than or equal to its own and before every later one, and
\* leaves the order of the others alone, so equal keys stand in the registry in
\* insertion order.  A scan appends the units it wakes to ready_list in registry
\* order, which is non-decreasing in wake_tick, and every unit it leaves asleep
\* has a wake_tick above every unit it woke; when the tick also ends the running
\* thread's time slice that thread goes behind the woken units and the front of
\* the list is given the CPU.  So of two woken units with the
\* same wake_tick the one that went to sleep at an earlier clock is ahead in
\* ready_list.
WakeOrder ==
  /\ [][\A t \in Threads :
          (pc[t] = "computed" /\ pc'[t] = "inserted") =>
            /\ Without(sleeping_list', t) = sleeping_list
            /\ \A i \in 1 .. Len(sleeping_list') :
                 /\ i < Pos(sleeping_list', t) =>
                      wakeup_tick[sleeping_list'[i]] <= wakeup_tick[t]
                 /\ i > Pos(sleeping_list', t) =>
                      wakeup_tick[sleeping_list'[i]] > wakeup_tick[t]]_vars
  /\ [][Len(sleeping_list') < Len(sleeping_list) =>
          LET k == Len(sleeping_list) - Len(sleeping_list')
          IN  /\ (IF SliceEnds THEN <<running'>> \o ready_list' ELSE ready_list') =
                   ready_list \o SubSeq(sleeping_list, 1, k)
                     \o (IF SliceEnds /\ running # Idle THEN <<running>> ELSE <<>>)
              /\ \A i, j \in 1 .. Len(sleeping_list) :
                   i < j => wakeup_tick[sleeping_list[i]] <= wakeup_tick[sleeping_list[j]]
              /\ \A i \in 1 .. k, j \in 1 .. Len(sleeping_list') :
                   wakeup_tick[sleeping_list[i]] < wakeup_tick[sleeping_list'[j]]]_vars
  /\ [](\A t, u \in Threads :
          (/\ Parked(t) /\ Parked(u)
           /\ status[t] = "THREAD_READY" /\ status[u] = "THREAD_READY"
           /\ wakes[t] = 1 /\ wakes[u] = 1
           /\ wakeup_tick[t] = wakeup_tick[u]
           /\ start[t] < start[u])
          => Pos(ready_list, t) < Pos(ready_list, u))

\* Two units with the same wake_tick, the higher-numbered one asleep first, have
\* been woken by one scan and stand in ready_list in the order they went to sleep.
WakeOrderWitness ==
  \E t, u \in Threads :
    /\ t > u
    /\ Parked(t) /\ Parked(u)
    /\ status[t] = "THREAD_READY" /\ status[u] = "THREAD_READY"
    /\ wakes[t] = 1 /\ wakes[u] = 1
    /\ wakeup_tick[t] = wakeup_tick[u]
    /\ start[t] < start[u]
    /\ Pos(ready_list, t) < Pos(ready_list, u)

\* C12: idempotent scan.  A scan run a second time at the same clock, with no
\* insertion since the first, makes no unit Ready and leaves the registry, the
\* ready list, every status and next_wakeup_tick as the first scan left them.
ScanIdempotent ==
  [][(scans = 1 /\ scans' = 2) =>
       /\ UNCHANGED <<sleeping_list, ready_list, status, next_wakeup_tick, wakes>>
       /\ UNCHANGED ticks]_vars

\* A second scan has run at a clock at which the first woke a unit and left
\* another asleep.
ScanIdempotentWitness ==
  /\ scans = 2
  /\ sleeping_list # <<>>
  /\ \E t \in Threads : Parked(t) /\ wakes[t] = 1 /\ wakeup_tick[t] = ticks
                        /\ Occurrences(ready_list, t) = 1

\* A unit that has been released: Ready on ready_list exactly once, or already
\* given the CPU and on no list.
ReleasedOnce(t) ==
  /\ ~InList(sleeping_list, t)
  /\ \/ status[t] = "THREAD_READY" /\ Occurrences(ready_list, t) = 1
     \/ status[t] = "THREAD_RUNNING" /\ Occurrences(ready_list, t) = 0 /\ running = t

\* A unit that is still asleep: Blocked, once in the registry, not on ready_list.
StillAsleep(t) ==
  /\ status[t] = "THREAD_BLOCKED"
  /\ Occurrences(sleeping_list, t) = 1
  /\ ~InList(ready_list, t)

\* C14: the scenario.  Units 1, 2, 3 ask for 5, 1 and 5 ticks at clock 0.  Once
\* the clock is 1, and until it is 5, exactly unit 2 has been released and
\* units 1 and 3 are asleep; straight after the tick to 1 unit 2 is the one
\* entry of ready_list.  Once the clock is 5 units 1 and 3 have been released
\* too, each of the three is present once and the registry is empty; units 1
\* and 3 are Ready on ready_list straight after the tick to 5, unless that tick
\* ended unit 2's time slice and gave the CPU to the first of them.
Scenario ==
  /\ (ticks >= 1 /\ ticks < 5) =>
       /\ ReleasedOnce(2) /\ wakes[2] <= 1
       /\ StillAsleep(1) /\ StillAsleep(3)
       /\ Len(sleeping_list) = 2
       /\ (ticks = 1 /\ scans = 1 /\ Parked(2) /\ running = Idle) => ready_list = <<2>>
  /\ ticks >= 5 =>
       /\ \A t \in Threads : ReleasedOnce(t) /\ wakes[t] <= 1
       /\ sleeping_list = <<>>
       /\ Len(ready_list) \in {2, 3}
       /\ (ticks = 5 /\ thread_ticks > 0) =>
            /\ status[1] = "THREAD_READY" /\ status[3] = "THREAD_READY"
            /\ wakes[1] = 1 /\ wakes[3] = 1

\* The clock has reached 5 with unit 2 up and running since clock 1 and units 1
\* and 3 made Ready by the scan at 5.
ScenarioWitness ==
  /\ ticks = 5
  /\ running = 2 /\ pc[2] = "run"
  /\ Len(ready_list) = 2
  /\ wakes[1] = 1 /\ wakes[3] = 1
  /\ wakeup_tick[1] = 5 /\ wakeup_tick[2] = 1 /\ wakeup_tick[3] = 5

\* C15: fixed-point round trip.  For every n with n * FP_F in the range of int,
\* that is from -131072 (-8 * FP_F) up to 131071, fp_to_int_zero (fp_int_to_fp (n))
\* is n.
RoundTrip ==
  (fp.op = "round_trip" /\ fp.x >= -(8 * FP_F) /\ fp.x <= 8 * FP_F - 1)
    => fp.res = fp.x

\* The least n whose scaled value fits, -131072, has made the round trip.
RoundTripWitness ==
  /\ fp.op = "round_trip"
  /\ fp.x = -(8 * FP_F)
  /\ fp.res = fp.x

\* C16: fp_to_int_nearest rounds to the nearest integer, halves away from zero.
\* Its result r differs from x / FP_F by at most a half; for x >= 0 a value
\* exactly halfway goes up (x - r * FP_F lies in -FP_F/2 .. FP_F/2 - 1) and for
\* x < 0 it goes down (x - r * FP_F lies in -FP_F/2 + 1 .. FP_F/2); 1.5 gives 2
\* and -1.5 gives -2.  Stated for every x whose offset sum is in the range of
\* int.
NearestRounding ==
  (fp.op = "fp_to_int_nearest" /\ offset_fits(fp.x)) =>
    LET d == fp.x - fp.res * FP_F
    IN  /\ fp.x >= 0 => (d >= -(FP_F \div 2) /\ d <= FP_F \div 2 - 1)
        /\ fp.x < 0 => (d >= -(FP_F \div 2) + 1 /\ d <= FP_F \div 2)
        /\ fp.x = FP_F + FP_F \div 2 => fp.res = 2
        /\ fp.x = -(FP_F + FP_F \div 2) => fp.res = -2

\* -1.5 has been rounded to -2.
NearestRoundingWitness ==
  /\ fp.op = "fp_to_int_nearest"
  /\ fp.x = -(FP_F + FP_F \div 2)
  /\ fp.res = -2

\* Comparison of two magnitudes of the same number of digits: a <= b.
RECURSIVE MagLE(_, _)
MagLE(a, b) ==
  LET n == Len(a)
  IN  IF n = 0 THEN TRUE
      ELSE IF a[n] # b[n] THEN a[n] < b[n]
      ELSE MagLE(SubSeq(a, 1, n - 1), SubSeq(b, 1, n - 1))

\* The sum of two magnitudes of the same number of digits.
MagAdd(a, b) == Carry([i \in 1 .. Len(a) |-> a[i] + b[i]], 0)

\* r is the exact value x * y / FP_F truncated toward zero:
\* |r| * FP_F <= |x * y| < (|r| + 1) * FP_F, and r has the sign of x * y
\* unless it is 0.
IsMulQuotient(r, x, y) ==
  LET P == MagMul(Mag(x), Mag(y))
      R == <<0>> \o Mag(r) \o <<0>>
  IN  /\ MagLE(R, P)
      /\ ~MagLE(MagAdd(R, <<0, 1, 0, 0, 0>>), P)
      /\ r # 0 => ((r < 0) <=> ((x < 0) # (y < 0)))

\* r is the exact value x * FP_F / y truncated toward zero:
\* |r| * |y| <= |x| * FP_F < (|r| + 1) * |y|, and r has the sign of x / y
\* unless it is 0.
IsDivQuotient(r, x, y) ==
  LET N == <<0>> \o Mag(x) \o <<0>>
      A == MagMul(Mag(r), Mag(y))
  IN  /\ MagLE(A, N)
      /\ ~MagLE(MagAdd(A, Mag(y) \o <<0, 0>>), N)
      /\ r # 0 => ((r < 0) <=> ((x < 0) # (y < 0)))

\* x * y / FP_F, truncated, is in the range of int: |x * y| is below 2^31 * FP_F,
\* or below (2^31 + 1) * FP_F when the product is negative.
MulQuotientFits(x, y) ==
  LET P == MagMul(Mag(x), Mag(y))
  IN  IF (x < 0) # (y < 0) THEN ~MagLE(<<0, 1, 0, 8, 0>>, P)
      ELSE ~MagLE(<<0, 0, 0, 8, 0>>, P)

\* x * FP_F / y, truncated, is in the range of int: |x| * FP_F is below
\* 2^31 * |y|, or below (2^31 + 1) * |y| when the quotient is negative.
DivQuotientFits(x, y) ==
  LET N == <<0>> \o Mag(x) \o <<0>>
  IN  IF (x < 0) # (y < 0) THEN ~MagLE(MagMul(Mag(y), <<1, 0, 8>>), N)
      ELSE ~MagLE(MagMul(Mag(y), <<0, 0, 8>>), N)

\* C20 as stated: for all x and y (y # 0 for fp_div) fp_mul (x, y) is the exact
\* x * y / FP_F truncated toward zero and fp_div (x, y) is the exact
\* x * FP_F / y truncated toward zero.
ExactMulDiv ==
  /\ fp.op = "fp_mul" => IsMulQuotient(fp.res, fp.x, fp.y)
  /\ (fp.op = "fp_div" /\ fp.y # 0) => IsDivQuotient(fp.res, fp.x, fp.y)

\* C20, amended: the 64-bit intermediate never wraps, so whenever the truncated
\* quotient is in the range of int fp_mul (x, y) and fp_div (x, y) return it;
\* operands whose product fits in 32 bits agree with plain integer arithmetic,
\* and 4.0 * 4.0, whose intermediate product is 2^32, is 16.0.  (When the
\* quotient is outside the range of int the cast to int keeps its low 32 bits.)
ExactMulDivWhenFits ==
  /\ (fp.op = "fp_mul" /\ MulQuotientFits(fp.x, fp.y)) =>
       IsMulQuotient(fp.res, fp.x, fp.y)
  /\ (fp.op = "fp_div" /\ fp.y # 0 /\ DivQuotientFits(fp.x, fp.y)) =>
       IsDivQuotient(fp.res, fp.x, fp.y)
  /\ (/\ fp.op = "fp_mul"
      /\ fp.x > -(2 * FP_F) /\ fp.x < 2 * FP_F
      /\ fp.y > -(2 * FP_F) /\ fp.y < 2 * FP_F) =>
       fp.res = trunc_div(fp.x * fp.y, FP_F)
  /\ (fp.op = "fp_mul" /\ fp.x = 4 * FP_F /\ fp.y = 4 * FP_F) => fp.res = 16 * FP_F

\* 4.0 * 4.0 has been computed: the product 2^32 does not fit in 32 bits, the
\* result 16.0 does.
ExactMulDivWhenFitsWitness ==
  /\ fp.op = "fp_mul"
  /\ fp.x = 4 * FP_F /\ fp.y = 4 * FP_F
  /\ MulQuotientFits(fp.x, fp.y)
  /\ fp.res = 16 * FP_F

====
